---- MODULE Spec2Model ----
(***************************************************************************)
(* Type inference engine of the typed lambda calculus REPL:                *)
(* typed_lambda_calculus/typ.py (type values, tru_typ, upgrade) and        *)
(* typed_lambda_calculus/type_checker.py (environment, infer_type,         *)
(* infer_application_type, union, equal, subsitute, is_in_typ).            *)
(*                                                                         *)
(* Type values live in a heap: MonoTyp and LambdaTyp are mutable objects   *)
(* with identity (their heap index), KnownTyp is a frozen value.  A        *)
(* reference is 0 (Python None), a heap index (> 0) or a ground type (< 0).*)
(***************************************************************************)
EXTENDS Integers, Sequences, FiniteSets, TLC

VARIABLES heap, counter, tree, nodeTyp, env, pc, runs, ret, err, pre, op

vars == <<heap, counter, tree, nodeTyp, env, pc, runs, ret, err, pre, op>>

\* ---------------------------------------------------------------- bounds
\* Largest expression tree (in nodes) that is enumerated exhaustively.
MaxSize == 4
\* Number of infer_type passes run on one tree.
MaxRuns == 2
\* Number of type objects the callers of the type API construct themselves.
MaxObjs == 2

\* ------------------------------------------------------------ type values
None == 0
Number == -1
Bool == -2

KnownTyps == {Number, Bool}

\* from_literal_category taking every known category for a number.
from_literal_category_all_numbers(c) ==
    CASE c = "NUMBER" -> Number
      [] c = "BOOL" -> Number
      [] OTHER -> None

from_literal_category(c) ==
    CASE c = "NUMBER" -> Number
      [] c = "BOOL" -> Bool
      [] OTHER -> None

MonoTyp(n) == [kind |-> "Mono", name |-> n, var |-> None, body |-> None, up |-> None]

LambdaTyp(v, b) == [kind |-> "Lam", name |-> 0, var |-> v, body |-> b, up |-> None]

\* The threaded interpreter state: heap, MONO_TYP_COUNTER, the raised
\* failure ("none" when no exception is in flight) and the returned reference.
St(h, c) == [heap |-> h, ctr |-> c, err |-> "none", ret |-> None]

Fail(s, e) == [s EXCEPT !.err = e, !.ret = None]

Ret(s, r) == [s EXCEPT !.ret = r]

\* Sequencing of two calls: F runs on the state a call left behind when it
\* returned; the state of a call that raised is passed on as it is.
Then(s, F(_)) == CHOOSE r \in {IF x.err # "none" THEN x ELSE F(x) : x \in {s}} : TRUE

\* reset_mono_typ_counter(): the global counter starts over.
reset_mono_typ_counter(s) == [s EXCEPT !.ctr = 0]

\* MonoTyp.create(): bump the global counter, name the variable after it.
create(s) ==
    [s EXCEPT !.ctr = s.ctr + 1,
              !.heap = Append(s.heap, MonoTyp(s.ctr + 1)),
              !.ret = Len(s.heap) + 1]

\* LambdaTyp(variable_typ=v, body_typ=b): a new unbound function type object.
new_lambda(s, v, b) ==
    [s EXCEPT !.heap = Append(s.heap, LambdaTyp(v, b)), !.ret = Len(s.heap) + 1]

Kind(h, t) == IF t < 0 THEN "Known" ELSE h[t].kind

\* Python recursion that exceeds this depth on a heap of this size revisits an
\* object: it never returns and ends in RecursionError.
Fuel(h) == Len(h) + 1

RECURSIVE tru_typ_rec(_, _, _)
tru_typ_rec(h, t, d) ==
    IF t < 0 THEN t
    ELSE IF h[t].up = None THEN t
    ELSE IF d = 0 THEN None
    ELSE tru_typ_rec(h, h[t].up, d - 1)

\* tru_typ(): follow upper_typ links; None stands for "does not return".
tru_typ(h, t) == tru_typ_rec(h, t, Fuel(h))

RECURSIVE upgrade_rec(_, _, _, _)
upgrade_rec(s, self, upper_typ, d) ==
    IF self < 0
    THEN IF upper_typ = self THEN Ret(s, self) ELSE Fail(s, "UpgradeAssert")
    ELSE IF s.heap[self].up # None
    THEN IF d = 0 THEN Fail(s, "RecursionError")
         ELSE upgrade_rec(s, s.heap[self].up, upper_typ, d - 1)
    ELSE IF self = upper_typ THEN Ret(s, self)
    ELSE Ret([s EXCEPT !.heap[self].up = upper_typ], upper_typ)

\* upgrade that hands back upper_typ and records no binding.
upgrade_not_recording(s, self, upper_typ) == Ret(s, upper_typ)

upgrade(s, self, upper_typ) == upgrade_rec(s, self, upper_typ, Fuel(s.heap))

\* ------------------------------------------------------------ unification
\* equal comparing ground types by kind only, not by name.
RECURSIVE equal_any_known(_, _, _)
equal_any_known(h, typ1, typ2) ==
    IF typ1 < 0 \/ typ2 < 0 THEN typ1 < 0 /\ typ2 < 0
    ELSE IF h[typ1].kind = "Mono" /\ h[typ2].kind = "Mono"
    THEN h[typ1].name = h[typ2].name
    ELSE IF h[typ1].kind = "Lam" /\ h[typ2].kind = "Lam"
    THEN equal_any_known(h, h[typ1].var, h[typ2].var)
         /\ equal_any_known(h, h[typ1].body, h[typ2].body)
    ELSE FALSE

RECURSIVE equal(_, _, _)
equal(h, typ1, typ2) ==
    IF typ1 < 0 \/ typ2 < 0 THEN typ1 = typ2
    ELSE IF h[typ1].kind = "Mono" /\ h[typ2].kind = "Mono"
    THEN h[typ1].name = h[typ2].name
    ELSE IF h[typ1].kind = "Lam" /\ h[typ2].kind = "Lam"
    THEN equal(h, h[typ1].var, h[typ2].var) /\ equal(h, h[typ1].body, h[typ2].body)
    ELSE FALSE

\* is_in_typ looking into the result of a function type only.
RECURSIVE is_in_typ_body_only(_, _, _)
is_in_typ_body_only(h, monotyp_name, typ) ==
    IF typ < 0 THEN FALSE
    ELSE IF h[typ].kind = "Mono" THEN monotyp_name = h[typ].name
    ELSE is_in_typ_body_only(h, monotyp_name, h[typ].body)

RECURSIVE is_in_typ(_, _, _)
is_in_typ(h, monotyp_name, typ) ==
    IF typ < 0 THEN FALSE
    ELSE IF h[typ].kind = "Mono" THEN monotyp_name = h[typ].name
    ELSE is_in_typ(h, monotyp_name, h[typ].body) \/ is_in_typ(h, monotyp_name, h[typ].var)

RECURSIVE union_rec(_, _, _, _)
union_rec(s, typ1, typ2, d) ==
    LET h == s.heap
        true_typ1 == tru_typ(h, typ1)
        true_typ2 == tru_typ(h, typ2)
    IN  IF d = 0 \/ true_typ1 = None \/ true_typ2 = None THEN Fail(s, "RecursionError")
        ELSE IF equal(h, true_typ1, true_typ2) THEN Ret(s, typ1)
        ELSE IF Kind(h, true_typ2) = "Mono"
        THEN IF is_in_typ(h, h[true_typ2].name, true_typ1)
             THEN Fail(s, "RecursiveType")
             ELSE Ret(s, true_typ1)
        ELSE IF Kind(h, true_typ1) = "Mono"
        THEN IF is_in_typ(h, h[true_typ1].name, true_typ2)
             THEN Fail(s, "RecursiveType")
             ELSE Ret(s, true_typ2)
        ELSE IF Kind(h, true_typ1) = "Known" /\ Kind(h, true_typ2) = "Known"
        THEN IF true_typ1 = true_typ2 THEN Ret(s, typ1) ELSE Fail(s, "TypeMismatch")
        ELSE IF Kind(h, true_typ1) = "Lam" /\ Kind(h, true_typ2) = "Lam"
        THEN Then(union_rec(s, h[true_typ1].var, h[true_typ2].var, d - 1), LAMBDA s1 :
             Then(union_rec(s1, h[true_typ1].body, h[true_typ2].body, d - 1), LAMBDA s2 :
                  new_lambda(s2, s1.ret, s2.ret)))
        ELSE Fail(s, "TypeMismatch")

union(s, typ1, typ2) == union_rec(s, typ1, typ2, Fuel(s.heap))

RECURSIVE subsitute_rec(_, _, _, _, _)
subsitute_rec(s, from_typ, to_typ, in_typ, d) ==
    LET h == s.heap
        true_from_typ == tru_typ(h, from_typ)
        true_to_typ == tru_typ(h, to_typ)
        true_in_typ == tru_typ(h, in_typ)
    IN  IF d = 0 \/ true_from_typ = None \/ true_to_typ = None \/ true_in_typ = None
        THEN Fail(s, "RecursionError")
        ELSE IF equal(h, true_from_typ, true_in_typ) THEN Ret(s, true_to_typ)
        ELSE IF Kind(h, true_in_typ) = "Lam"
        THEN Then(subsitute_rec(s, true_from_typ, true_to_typ, h[true_in_typ].var, d - 1),
                  LAMBDA s1 :
             Then(subsitute_rec(s1, true_from_typ, true_to_typ, h[true_in_typ].body, d - 1),
                  LAMBDA s2 :
                  new_lambda(s2, s1.ret, s2.ret)))
        ELSE Ret(s, true_in_typ)

subsitute(s, from_typ, to_typ, in_typ) ==
    subsitute_rec(s, from_typ, to_typ, in_typ, Fuel(s.heap))

\* --------------------------------------------------------- inference engine
\* apply_lambda_typ with the binding of the parameter variable left out.
apply_lambda_typ_unbound(s, function_true_typ, argument_typ, argument_true_typ) ==
    LET variable_typ == s.heap[function_true_typ].var
        body_typ == s.heap[function_true_typ].body
    IN  Then(union(s, variable_typ, argument_true_typ), LAMBDA s1 :
        Then(upgrade(s1, argument_typ, s1.ret), LAMBDA s3 :
             subsitute(s3, variable_typ, s1.ret, body_typ)))

\* infer_application_type, case LambdaTyp(variable_typ, body_typ).
apply_lambda_typ(s, function_true_typ, argument_typ, argument_true_typ) ==
    LET variable_typ == s.heap[function_true_typ].var
        body_typ == s.heap[function_true_typ].body
    IN  \* s1.ret is union_typ
        Then(union(s, variable_typ, argument_true_typ), LAMBDA s1 :
        Then(upgrade(s1, variable_typ, s1.ret), LAMBDA s2 :
        Then(upgrade(s2, argument_typ, s1.ret), LAMBDA s3 :
             subsitute(s3, variable_typ, s1.ret, body_typ))))

\* bind_function_variable with the binding of the function variable left out.
bind_function_variable_unbound(s, function_typ, function_true_typ, argument_true_typ) ==
    Then(create(s), LAMBDA s1 :
    Then(new_lambda(s1, argument_true_typ, s1.ret), LAMBDA s2 :
         union(s2, function_true_typ, s2.ret)))

\* infer_application_type, case MonoTyp(_), up to the retry: the function
\* variable is given the shape argument -> fresh variable; returns union_typ.
bind_function_variable(s, function_typ, function_true_typ, argument_true_typ) ==
    \* s3.ret is union_typ
    Then(create(s), LAMBDA s1 :
    Then(new_lambda(s1, argument_true_typ, s1.ret), LAMBDA s2 :
    Then(union(s2, function_true_typ, s2.ret), LAMBDA s3 :
    Then(upgrade(s3, function_typ, s3.ret), LAMBDA s4 :
         Ret(s4, s3.ret)))))

RECURSIVE infer_application_type_rec(_, _, _, _)
infer_application_type_rec(s, function_typ, argument_typ, d) ==
    LET h == s.heap
        function_true_typ == tru_typ(h, function_typ)
        argument_true_typ == tru_typ(h, argument_typ)
    IN  IF d = 0 \/ function_true_typ = None \/ argument_true_typ = None
        THEN Fail(s, "RecursionError")
        ELSE IF Kind(h, function_true_typ) = "Lam"
        THEN apply_lambda_typ(s, function_true_typ, argument_typ, argument_true_typ)
        ELSE IF Kind(h, function_true_typ) = "Mono"
        THEN Then(bind_function_variable(s, function_typ, function_true_typ,
                                         argument_true_typ), LAMBDA s4 :
                  infer_application_type_rec(s4, s4.ret, argument_true_typ, d - 1))
        ELSE Fail(s, "NotAFunction")

\* infer_application_type taking a ground type in function position for a
\* constant function: the application has the type of the ground type.
infer_application_type_ground_ok(s, function_typ, argument_typ) ==
    IF tru_typ(s.heap, function_typ) # None /\ tru_typ(s.heap, function_typ) < 0
    THEN Ret(s, tru_typ(s.heap, function_typ))
    ELSE infer_application_type_rec(s, function_typ, argument_typ, Fuel(s.heap))

infer_application_type(s, function_typ, argument_typ) ==
    infer_application_type_rec(s, function_typ, argument_typ, Fuel(s.heap))

\* EmptyTypEnvironment is <<>>; a LambdaTypEnvironment frame is the head of the
\* sequence and its inner environment the tail.
EmptyTypEnvironment == <<>>

\* LambdaTypEnvironment with the new frame put behind the frames of inner.
LambdaTypEnvironment_behind(variable_name, variable_typ, inner) ==
    inner \o <<[name |-> variable_name, typ |-> variable_typ]>>

LambdaTypEnvironment(variable_name, variable_typ, inner) ==
    <<[name |-> variable_name, typ |-> variable_typ]>> \o inner

\* getitem searching the outermost frame first.
RECURSIVE getitem_outermost(_, _)
getitem_outermost(e, variable_name) ==
    IF e = <<>> THEN None
    ELSE LET inner == getitem_outermost(Tail(e), variable_name)
         IN  IF inner # None THEN inner
             ELSE IF Head(e).name = variable_name THEN Head(e).typ
             ELSE None

RECURSIVE getitem(_, _)
getitem(e, variable_name) ==
    IF e = <<>> THEN None
    ELSE IF Head(e).name = variable_name THEN Head(e).typ
    ELSE getitem(Tail(e), variable_name)

\* An expression tree is the sequence of its nodes in prefix order; node i
\* owns the type variable nt[i].
Literal(c) == <<[k |-> "lit", a |-> c]>>

Identifier(n) == <<[k |-> "id", a |-> n]>>

Application(f, x) == <<[k |-> "app", a |-> ""]>> \o f \o x

Lambda(n, b) == <<[k |-> "lam", a |-> n]>> \o b

LetIn(n, e, b) == <<[k |-> "let", a |-> n]>> \o e \o b

RECURSIVE SubtreeEnd(_, _)
SubtreeEnd(tr, i) ==
    CASE tr[i].k \in {"lit", "id"} -> i + 1
      [] tr[i].k = "lam" -> SubtreeEnd(tr, i + 1)
      [] OTHER -> SubtreeEnd(tr, SubtreeEnd(tr, i + 1))

RECURSIVE infer_type(_, _, _, _, _)
infer_type(s, tr, nt, i, typ_environement) ==
    LET inferred_typ == nt[i]
    IN  CASE tr[i].k = "lit" ->
               LET known_typ == from_literal_category(tr[i].a)
               IN  IF known_typ = None THEN Fail(s, "NotImplemented")
                   ELSE Then(union(s, known_typ, inferred_typ), LAMBDA s1 :
                             upgrade(s1, inferred_typ, s1.ret))
          [] tr[i].k = "id" ->
               LET typ_from_environement == getitem(typ_environement, tr[i].a)
               IN  IF typ_from_environement # None
                   THEN Then(union(s, typ_from_environement, inferred_typ), LAMBDA s1 :
                             upgrade(s1, inferred_typ, s1.ret))
                   ELSE Ret(s, inferred_typ)
          [] tr[i].k = "app" ->
               Then(infer_type(s, tr, nt, i + 1, typ_environement), LAMBDA s1 :
               Then(infer_type(s1, tr, nt, SubtreeEnd(tr, i + 1), typ_environement),
                    LAMBDA s2 :
               Then(infer_application_type(s2, s1.ret, s2.ret), LAMBDA s3 :
                    upgrade(s3, inferred_typ, s3.ret))))
          [] tr[i].k = "lam" ->
               \* s0.ret is variable_typ
               Then(create(s), LAMBDA s0 :
               Then(infer_type(s0, tr, nt, i + 1,
                               LambdaTypEnvironment(tr[i].a, s0.ret, typ_environement)),
                    LAMBDA s1 :
               Then(new_lambda(s1, s0.ret, s1.ret), LAMBDA s2 :
               Then(union(s2, s2.ret, inferred_typ), LAMBDA s3 :
                    upgrade(s3, inferred_typ, s3.ret)))))
          [] OTHER -> Fail(s, "NotImplemented")

\* ------------------------------------------------------------ expressions
Names == {"x", "f"}

LiteralCategories == {"NUMBER", "BOOL"}

RECURSIVE Trees(_)
Trees(n) ==
    IF n = 1
    THEN {Literal(c) : c \in LiteralCategories} \cup {Identifier(v) : v \in Names}
    ELSE {Lambda(v, b) : v \in Names, b \in Trees(n - 1)}
         \cup UNION {{Application(f, x) : f \in Trees(j), x \in Trees(n - 1 - j)}
                     : j \in 1..(n - 2)}

\* (\f.\x. f x) (\y.y) 3
NestedApplication ==
    Application(
        Application(Lambda("f", Lambda("x", Application(Identifier("f"), Identifier("x")))),
                    Lambda("y", Identifier("y"))),
        Literal("NUMBER"))

\* \x.\f. x (f x) (f x)
RepeatedApplication ==
    Lambda("x", Lambda("f",
        Application(
            Application(Identifier("x"), Application(Identifier("f"), Identifier("x"))),
            Application(Identifier("f"), Identifier("x")))))

\* \f.\x. k (f x) (f 3) (f 3)
AppliedTwice ==
    Lambda("f", Lambda("x",
        Application(
            Application(
                Application(Identifier("k"), Application(Identifier("f"), Identifier("x"))),
                Application(Identifier("f"), Literal("NUMBER"))),
            Application(Identifier("f"), Literal("NUMBER")))))

\* let x = 3 in x
LetExpression == LetIn("x", Literal("NUMBER"), Identifier("x"))

\* a literal whose category is outside the table
OtherLiteral == Application(Lambda("x", Identifier("x")), Literal("OTHER"))

\* (\x.x) 3 4
GroundApplied == Application(Application(Lambda("x", Identifier("x")), Literal("NUMBER")),
                             Literal("NUMBER"))

\* \x. x (\f. f x)
SelfThroughArgument ==
    Lambda("x", Application(Identifier("x"),
                            Lambda("f", Application(Identifier("f"), Identifier("x")))))

NamedTrees ==
    {NestedApplication, RepeatedApplication, AppliedTwice, LetExpression, OtherLiteral,
     GroundApplied, SelfThroughArgument}

Expressions == UNION {Trees(n) : n \in 1..MaxSize} \cup NamedTrees

\* Environments a caller passes to infer_type: none, or frames over ground types.
Environments ==
    {EmptyTypEnvironment,
     LambdaTypEnvironment("x", Number, EmptyTypEnvironment),
     LambdaTypEnvironment("f", Bool, LambdaTypEnvironment("x", Number, EmptyTypEnvironment)),
     LambdaTypEnvironment("x", Bool, LambdaTypEnvironment("x", Number, EmptyTypEnvironment))}

\* --------------------------------------------------------------- REPL run
NoOp == [name |-> "none", a |-> None, b |-> None]

Init ==
    /\ heap = <<>>
    /\ counter = 0
    /\ tree = <<>>
    /\ nodeTyp = <<>>
    /\ env = EmptyTypEnvironment
    /\ pc = "idle"
    /\ runs = 0
    /\ ret = None
    /\ err = "none"
    /\ pre = <<>>
    /\ op = NoOp

\* The parser hands over a tree in which every node owns one fresh variable.
Parse(t, e) ==
    /\ pc = "idle"
    /\ tree' = t
    /\ env' = e
    /\ heap' = heap \o [i \in 1..Len(t) |-> MonoTyp(counter + i)]
    /\ nodeTyp' = [i \in 1..Len(t) |-> Len(heap) + i]
    /\ counter' = counter + Len(t)
    /\ pc' = "parsed"
    /\ UNCHANGED <<runs, ret, err, pre, op>>

\* Infer with a caller that swallows a failure and hands out the root's own
\* variable as the result.
Infer_returning_partial ==
    /\ pc \in {"parsed", "done"}
    /\ runs < MaxRuns
    /\ \E s \in {infer_type(St(heap, counter), tree, nodeTyp, 1, env)} :
           /\ heap' = s.heap
           /\ counter' = s.ctr
           /\ ret' = IF s.err = "none" THEN s.ret ELSE nodeTyp[1]
           /\ err' = "none"
           /\ pc' = "done"
    /\ pre' = heap
    /\ runs' = runs + 1
    /\ op' = [name |-> "infer_type", a |-> None, b |-> None]
    /\ UNCHANGED <<tree, nodeTyp, env>>

\* One call infer_type(expression, env) on the root of the tree.
Infer ==
    /\ pc \in {"parsed", "done"}
    /\ runs < MaxRuns
    /\ \E s \in {infer_type(St(heap, counter), tree, nodeTyp, 1, env)} :
           /\ heap' = s.heap
           /\ counter' = s.ctr
           /\ ret' = s.ret
           /\ err' = s.err
           /\ pc' = IF s.err = "none" THEN "done" ELSE "failed"
    /\ pre' = heap
    /\ runs' = runs + 1
    /\ op' = [name |-> "infer_type", a |-> None, b |-> None]
    /\ UNCHANGED <<tree, nodeTyp, env>>

Next ==
    \/ \E t \in Expressions, e \in Environments : Parse(t, e)
    \/ Infer

Spec == Init /\ [][Next]_vars

\* ------------------------------------------------- the type API used directly
\* Callers of typ.py / type_checker.py build type values and call upgrade and
\* union on them in any order.
Refs(h) == (1..Len(h)) \cup KnownTyps

\* The callers build function types over objects and Number; Bool reaches a
\* function type through the binding of a variable in it.
ComponentRefs(h) == (1..Len(h)) \cup {Number}

InitU ==
    /\ heap = <<>>
    /\ counter = 0
    /\ tree = <<>>
    /\ nodeTyp = <<>>
    /\ env = EmptyTypEnvironment
    /\ pc = "api"
    /\ runs = 0
    /\ ret = None
    /\ err = "none"
    /\ pre = <<>>
    /\ op = NoOp

\* A constructor call: the new object is all that changes.
Constructed(s) ==
    /\ heap' = s.heap
    /\ counter' = s.ctr
    /\ UNCHANGED <<tree, nodeTyp, env, pc, runs, ret, err, pre, op>>

\* A call of upgrade or union returns (or raises): what it was given, what it
\* returned and the heap it started from stay visible until the caller goes on.
Returned(s, n, a, b) ==
    /\ heap' = s.heap
    /\ counter' = s.ctr
    /\ ret' = s.ret
    /\ err' = s.err
    /\ pre' = heap
    /\ op' = [name |-> n, a |-> a, b |-> b]
    /\ pc' = "returned"
    /\ UNCHANGED <<tree, nodeTyp, env, runs>>

ApiCreate ==
    /\ pc = "api"
    /\ Len(heap) < MaxObjs
    /\ Constructed(create(St(heap, counter)))

ApiLambda(a, b) ==
    /\ pc = "api"
    /\ Len(heap) < MaxObjs
    /\ Constructed(new_lambda(St(heap, counter), a, b))

ApiUpgrade(self, upper_typ) ==
    /\ pc = "api"
    /\ Returned(upgrade(St(heap, counter), self, upper_typ), "upgrade", self, upper_typ)

ApiUnion(typ1, typ2) ==
    /\ pc = "api"
    /\ Returned(union(St(heap, counter), typ1, typ2), "union", typ1, typ2)

\* The caller drops the result (or catches the exception) and goes on.
ApiContinue ==
    /\ pc = "returned"
    /\ Len(heap) <= MaxObjs
    /\ pc' = "api"
    /\ ret' = None
    /\ err' = "none"
    /\ pre' = <<>>
    /\ op' = NoOp
    /\ UNCHANGED <<heap, counter, tree, nodeTyp, env, runs>>

NextU ==
    \/ ApiCreate
    \/ \E a \in ComponentRefs(heap), b \in ComponentRefs(heap) : ApiLambda(a, b)
    \/ \E a \in Refs(heap), b \in Refs(heap) : ApiUpgrade(a, b)
    \/ \E a \in Refs(heap), b \in Refs(heap) : ApiUnion(a, b)
    \/ ApiContinue

SpecU == InitU /\ [][NextU]_vars

\* The type API together with the allocator's reset.
ApiReset ==
    /\ pc = "api"
    /\ Constructed(reset_mono_typ_counter(St(heap, counter)))

NextA ==
    \/ NextU
    \/ ApiReset

SpecA == InitU /\ [][NextA]_vars

\* The type API together with infer_application_type called on type values.
ApiApply(function_typ, argument_typ) ==
    /\ pc = "api"
    /\ Returned(infer_application_type(St(heap, counter), function_typ, argument_typ),
                "infer_application_type", function_typ, argument_typ)

NextI ==
    \/ NextU
    \/ \E a \in Refs(heap), b \in Refs(heap) : ApiApply(a, b)

SpecI == InitU /\ [][NextI]_vars

\* ------------------------------------------------------- resolved structure
\* The type a reference stands for once every binding is followed, written in
\* prefix order: a ground type is itself, an unbound variable its name, a
\* function type 0 followed by argument and result; -3 marks a structure that
\* never ends.
RECURSIVE resolved_rec(_, _, _)
resolved_rec(h, t, d) ==
    LET true_typ == tru_typ(h, t)
    IN  IF d = 0 \/ true_typ = None THEN <<-3>>
        ELSE IF true_typ < 0 THEN <<true_typ>>
        ELSE IF h[true_typ].kind = "Mono" THEN <<h[true_typ].name>>
        ELSE <<0>> \o resolved_rec(h, h[true_typ].var, d - 1)
                   \o resolved_rec(h, h[true_typ].body, d - 1)

resolved(h, t) == resolved_rec(h, t, Fuel(h))

\* ------------------------------------------------------ inference properties
Finished == pc \in {"done", "failed"}

\* \x.x
IdentityLambda == Lambda("x", Identifier("x"))

\* (\x.x) e for a literal e of category c
IdentityApplied(c) == Application(IdentityLambda, Literal(c))

\* C1: binding chains are acyclic: after a first inference pass over a tree
\* whose node variables started fresh and unbound (whether the pass returned or
\* failed), following upper_typ links from every type object ends at an
\* unbound type.
C1_BindingChainsAcyclic ==
    (Finished /\ runs = 1) => \A t \in 1..Len(heap) : tru_typ(heap, t) # None

\* C5: inferring (\f.\x. f x) (\y.y) 3 in the empty environment succeeds and
\* the root node resolves to the ground type Number.
C5_NestedApplicationIsNumber ==
    (Finished /\ runs = 1 /\ tree = NestedApplication /\ env = EmptyTypEnvironment)
        => /\ err = "none"
           /\ resolved(heap, nodeTyp[1]) = <<Number>>

\* C6: for every literal e, inferring (\x.x) e (a freshly parsed tree) in the
\* empty environment succeeds, the application node resolves to the ground
\* type of e, and the parameter variable allocated for the lambda (the first
\* object allocated by the pass) resolves to that same ground type.
C6_SimpleApplication ==
    \A c \in LiteralCategories :
        (Finished /\ runs = 1 /\ tree = IdentityApplied(c) /\ env = EmptyTypEnvironment)
            => /\ err = "none"
               /\ resolved(heap, ret) = <<from_literal_category(c)>>
               /\ resolved(heap, nodeTyp[1]) = <<from_literal_category(c)>>
               /\ heap[Len(pre) + 1].kind = "Mono"
               /\ resolved(heap, Len(pre) + 1) = <<from_literal_category(c)>>

C6_Witness ==
    /\ pc = "done" /\ runs = 1
    /\ tree = IdentityApplied("NUMBER") /\ env = EmptyTypEnvironment
    /\ resolved(heap, nodeTyp[1]) = <<Number>>
    /\ resolved(heap, Len(pre) + 1) = <<Number>>

\* C7: inferring \x.x in any environment returns an unbound function type
\* whose argument and result are one and the same variable V; V was allocated
\* during this pass, is unbound after it, and is no node's own variable.
C7_IdentityLambda ==
    (Finished /\ tree = IdentityLambda)
        => /\ err = "none"
           /\ ret > 0
           /\ heap[ret].kind = "Lam"
           /\ heap[ret].up = None
           /\ LET V == heap[ret].var
              IN  /\ heap[ret].body = V
                  /\ V > Len(pre)
                  /\ heap[V].kind = "Mono"
                  /\ heap[V].up = None
                  /\ \A i \in 1..Len(nodeTyp) : nodeTyp[i] # V

C7_Witness ==
    /\ pc = "done" /\ runs = 1
    /\ tree = IdentityLambda
    /\ env # EmptyTypEnvironment
    /\ heap[ret].kind = "Lam"
    /\ heap[ret].var = heap[ret].body
    /\ heap[heap[ret].var].up = None

\* The root is an application whose function is an identifier that the
\* environment does not hold.
FreeFunctionApplication ==
    /\ Len(tree) >= 3
    /\ tree[1].k = "app"
    /\ tree[2].k = "id"
    /\ getitem(env, tree[2].a) = None

\* The argument of a free-function application inferred on its own, from the
\* state the pass started in.
ArgumentAlone == infer_type(St(pre, Len(pre)), tree, nodeTyp, 3, env)

\* C8: an identifier the environment does not hold is no error: inferring it
\* returns its node variable, unbound.  When such an identifier f is applied to
\* an argument whose inference succeeds with type A, the pass succeeds, f's
\* node resolves to FunctionType(A, V2) with V2 an unbound variable allocated
\* after the argument was inferred, and the application node resolves to V2.
C8_FreeFunctionApplication ==
    /\ (Finished /\ runs = 1 /\ tree[1].k = "id" /\ getitem(env, tree[1].a) = None)
        => /\ err = "none"
           /\ ret = nodeTyp[1]
           /\ heap[ret].up = None
    /\ (Finished /\ runs = 1 /\ FreeFunctionApplication /\ ArgumentAlone.err = "none")
        => /\ err = "none"
           /\ LET V2 == tru_typ(heap, nodeTyp[1])
                  A == resolved(ArgumentAlone.heap, ArgumentAlone.ret)
              IN  /\ V2 > Len(ArgumentAlone.heap)
                  /\ heap[V2].kind = "Mono"
                  /\ heap[V2].up = None
                  /\ tru_typ(heap, ret) = V2
                  /\ resolved(heap, nodeTyp[2]) = <<0>> \o A \o <<heap[V2].name>>
                  /\ resolved(heap, nodeTyp[3]) = A

C8_Witness ==
    /\ pc = "done" /\ runs = 1
    /\ tree = Application(Identifier("f"), Literal("NUMBER"))
    /\ env = EmptyTypEnvironment
    /\ resolved(heap, nodeTyp[2]) = <<0, Number>> \o resolved(heap, nodeTyp[1])
    /\ heap[tru_typ(heap, nodeTyp[1])].kind = "Mono"

\* C9: idempotence: a second pass over a tree on which the first pass
\* succeeded also succeeds and leaves every node resolving to the same type
\* (same ground names, same structure, same variables) as after the first.
C9_Idempotent ==
    (Finished /\ runs = 2)
        => /\ err = "none"
           /\ \A i \in 1..Len(nodeTyp) :
                  resolved(heap, nodeTyp[i]) = resolved(pre, nodeTyp[i])

\* ------------------------------------------------------ type API properties
CalledUnion == pc = "returned" /\ op.name = "union"

CalledUpgrade == pc = "returned" /\ op.name = "upgrade"

\* No binding of an object that existed before the call has changed.
BindingsUnchanged == \A t \in 1..Len(pre) : heap[t] = pre[t]

\* The object X itself is an argument or result of t at some nesting depth.
RECURSIVE AppearsIn(_, _, _)
AppearsIn(h, X, t) ==
    /\ t > 0
    /\ h[t].kind = "Lam"
    /\ \/ h[t].var = X
       \/ h[t].body = X
       \/ AppearsIn(h, X, h[t].var)
       \/ AppearsIn(h, X, h[t].body)

UnboundVariable(h, X) == X > 0 /\ h[X].kind = "Mono" /\ h[X].up = None

\* C2: whenever union(t1, t2) succeeds, t1 and t2 are structurally equal right
\* afterwards once every binding is followed.
C2_UnionMakesOperandsEqual ==
    (CalledUnion /\ err = "none") => resolved(heap, op.a) = resolved(heap, op.b)

\* C3 as claimed: for every unbound variable X and every function type t in
\* which X itself appears, union(X, t) and union(t, X) fail with RecursiveType
\* and leave X unbound.
C3_OccursCheckAnyFunctionType ==
    \A X \in 1..Len(pre) : \A t \in 1..Len(pre) :
        (/\ CalledUnion
         /\ <<op.a, op.b>> \in {<<X, t>>, <<t, X>>}
         /\ UnboundVariable(pre, X)
         /\ AppearsIn(pre, X, t))
            => err = "RecursiveType" /\ heap[X].up = None

\* C3 amended: for every unbound variable X and every function type t that
\* has no binding of its own and in which X itself appears, at any nesting
\* depth, union(X, t) and union(t, X) fail with RecursiveType and leave X
\* unbound.
C3_OccursCheck ==
    \A X \in 1..Len(pre) : \A t \in 1..Len(pre) :
        (/\ CalledUnion
         /\ <<op.a, op.b>> \in {<<X, t>>, <<t, X>>}
         /\ UnboundVariable(pre, X)
         /\ pre[t].up = None
         /\ AppearsIn(pre, X, t))
            => err = "RecursiveType" /\ heap[X].up = None

C3_Witness ==
    /\ CalledUnion
    /\ err = "RecursiveType"
    /\ UnboundVariable(pre, op.a)
    /\ op.b > 0
    /\ pre[op.b].up = None
    /\ pre[op.b].var = op.a
    /\ heap[op.a].up = None

\* C4: union of two operands that both resolve to non-variable types: two
\* ground types of the same name give that ground type (the value returned
\* resolves to it, and is it when the first operand is the ground type itself);
\* two ground types of different names fail with TypeMismatch; a ground type
\* against a function type, in either order, fails with TypeMismatch; and
\* whenever such a union fails no binding has changed.
C4_UnionOfNonVariables ==
    LET ta == tru_typ(pre, op.a)
        tb == tru_typ(pre, op.b)
    IN  (/\ CalledUnion
         /\ ta # None /\ tb # None
         /\ Kind(pre, ta) # "Mono" /\ Kind(pre, tb) # "Mono")
            => /\ (ta < 0 /\ tb < 0 /\ ta = tb)
                    => /\ err = "none"
                       /\ tru_typ(heap, ret) = ta
                       /\ (op.a < 0 => ret = op.a)
                       /\ heap = pre
               /\ (ta < 0 /\ tb < 0 /\ ta # tb) => err = "TypeMismatch"
               /\ (ta < 0 /\ tb > 0) => err = "TypeMismatch"
               /\ (ta > 0 /\ tb < 0) => err = "TypeMismatch"
               /\ (err # "none") => BindingsUnchanged

C4_Witness ==
    /\ CalledUnion
    /\ op.a = Number
    /\ op.b > 0
    /\ pre[op.b].kind = "Mono"
    /\ Kind(pre, tru_typ(pre, op.b)) = "Lam"
    /\ err = "TypeMismatch"
    /\ BindingsUnchanged

\* C10: upgrade is idempotent under tru_typ: for every variable v and type t
\* that resolve to the same type value, v.upgrade(t) does not fail and changes
\* no binding.
C10_UpgradeIdempotent ==
    (/\ CalledUpgrade
     /\ op.a > 0
     /\ pre[op.a].kind = "Mono"
     /\ tru_typ(pre, op.a) # None
     /\ tru_typ(pre, op.b) = tru_typ(pre, op.a))
        => err = "none" /\ heap = pre

\* ------------------------------------------------ subexpressions of the root
\* The state a first pass starts in: the heap holds the node variables only.
Started == St(pre, Len(pre))

\* The first subexpression of the root (the function of an Application, the
\* body of a Lambda) inferred on its own, as the root's case of infer_type
\* does it.
FirstChild ==
    IF tree[1].k = "lam"
    THEN Then(create(Started), LAMBDA s0 :
              infer_type(s0, tree, nodeTyp, 2,
                         LambdaTypEnvironment(tree[1].a, s0.ret, env)))
    ELSE infer_type(Started, tree, nodeTyp, 2, env)

\* The argument of a root Application inferred after its function.
SecondChild ==
    Then(FirstChild, LAMBDA s1 :
         infer_type(s1, tree, nodeTyp, SubtreeEnd(tree, 2), env))

\* C11: a failure aborts the whole pass.  A failed pass returns no type; when
\* the inference of a subexpression of the root fails (the function or the
\* argument of an Application, the body of a Lambda), the pass fails with that
\* very failure and has done nothing after it: the heap is the one the failing
\* subexpression left.  A LetIn root fails at once (NotImplemented).
C11_FailureAbortsPass ==
    (Finished /\ runs = 1)
        => /\ (err # "none") => (ret = None /\ pc = "failed")
           /\ (tree[1].k \in {"app", "lam"} /\ FirstChild.err # "none")
                 => (err = FirstChild.err /\ heap = FirstChild.heap)
           /\ (tree[1].k = "app" /\ SecondChild.err # "none")
                 => (err = SecondChild.err /\ heap = SecondChild.heap)
           /\ (tree[1].k = "let") => (err = "NotImplemented" /\ heap = pre)

\* The argument of an application fails after its function was inferred.
C11_Witness ==
    /\ pc = "failed" /\ runs = 1
    /\ tree[1].k = "app"
    /\ FirstChild.err = "none"
    /\ SecondChild.err = "NotImplemented"
    /\ err = "NotImplemented"
    /\ ret = None

\* C12: an Application whose function subexpression resolves to a ground type
\* once function and argument are inferred fails with NotAFunction, whatever
\* type the argument has, and the application node's variable stays unbound.
C12_NotAFunction ==
    (/\ Finished /\ runs = 1
     /\ tree[1].k = "app"
     /\ SecondChild.err = "none"
     /\ tru_typ(SecondChild.heap, FirstChild.ret) \in KnownTyps)
        => /\ err = "NotAFunction"
           /\ ret = None
           /\ heap[nodeTyp[1]].up = None

\* (\x.x) 3 4: the function (\x.x) 3 resolves to Number.
C12_Witness ==
    /\ pc = "failed" /\ runs = 1
    /\ tree = GroundApplied
    /\ tru_typ(SecondChild.heap, FirstChild.ret) = Number
    /\ err = "NotAFunction"
    /\ heap[nodeTyp[1]].up = None

\* \x.\x.x
ShadowingLambda == Lambda("x", Lambda("x", Identifier("x")))

\* (\x.x) x
ArgumentNamedAsParameter == Application(IdentityLambda, Identifier("x"))

\* The frames of an environment that hold a name, innermost first.
FramesOf(e, variable_name) == {i \in 1..Len(e) : e[i].name = variable_name}

\* C13: lexical shadowing.  A lookup returns the type of the innermost frame
\* that has the name and nothing when no frame has it, so an identifier alone
\* resolves to the type of that frame, or keeps its own unbound variable.  In
\* \x.\x.x the identifier is bound to the parameter variable of the inner
\* lambda and the outer parameter variable stays unbound.  The frame pushed
\* for the function of an Application is gone when its argument is inferred:
\* in (\x.x) x the argument x has the type the surrounding environment gives
\* to x, and so has the whole application.
C13_LexicalShadowing ==
    /\ \A n \in Names :
          getitem(env, n) =
              IF FramesOf(env, n) = {} THEN None
              ELSE env[CHOOSE i \in FramesOf(env, n) : \A j \in FramesOf(env, n) : i <= j].typ
    /\ (Finished /\ runs = 1 /\ Len(tree) = 1 /\ tree[1].k = "id")
          => /\ err = "none"
             /\ tru_typ(heap, nodeTyp[1]) =
                    IF FramesOf(env, tree[1].a) = {} THEN nodeTyp[1]
                    ELSE Head(SelectSeq(env, LAMBDA fr : fr.name = tree[1].a)).typ
    /\ (Finished /\ runs = 1 /\ tree = ShadowingLambda)
          => /\ err = "none"
             /\ tru_typ(heap, nodeTyp[3]) = Len(pre) + 2
             /\ heap[Len(pre) + 2].kind = "Mono"
             /\ heap[Len(pre) + 1].up = None
             /\ resolved(heap, ret) =
                    <<0, heap[Len(pre) + 1].name, 0, heap[Len(pre) + 2].name,
                      heap[Len(pre) + 2].name>>
    /\ (Finished /\ runs = 1 /\ tree = ArgumentNamedAsParameter /\ FramesOf(env, "x") # {})
          => /\ err = "none"
             /\ resolved(heap, nodeTyp[4]) = <<getitem(env, "x")>>
             /\ resolved(heap, ret) = <<getitem(env, "x")>>

\* \x.\x.x inferred in an environment that itself has two frames for x.
C13_Witness ==
    /\ pc = "done" /\ runs = 1
    /\ tree = ShadowingLambda
    /\ Cardinality(FramesOf(env, "x")) = 2
    /\ tru_typ(heap, nodeTyp[3]) = Len(pre) + 2
    /\ heap[Len(pre) + 1].up = None

\* C14: type-variable identifiers are unique: whatever the callers did with the
\* allocator (MonoTyp.create, reset_mono_typ_counter) and the type API, no two
\* distinct variables carry the same name, and equal, which compares variables
\* by name, holds of two variables only when they are one and the same.
C14_UniqueIdentifiers ==
    \A a \in 1..Len(heap), b \in 1..Len(heap) :
        (heap[a].kind = "Mono" /\ heap[b].kind = "Mono" /\ a # b)
            => /\ heap[a].name # heap[b].name
               /\ ~equal(heap, a, b)

\* C15: literal table.  Inferring a Literal of category NUMBER returns the
\* ground type Number and one of category BOOL returns Bool, in every
\* environment and on every pass, and the node's variable is bound to that
\* ground type; the literals of a tree whose pass succeeded all resolve to the
\* ground type of their category.  A literal of a category outside the table
\* fails (NotImplemented), returns nothing and leaves its variable unbound.
C15_LiteralTable ==
    /\ (Finished /\ Len(tree) = 1 /\ tree[1].k = "lit")
          => /\ err = "none"
             /\ (tree[1].a = "NUMBER") => (ret = Number /\ tru_typ(heap, nodeTyp[1]) = Number)
             /\ (tree[1].a = "BOOL") => (ret = Bool /\ tru_typ(heap, nodeTyp[1]) = Bool)
             /\ heap[nodeTyp[1]].up # None
    /\ (pc = "done")
          => \A i \in 1..Len(tree) :
                 /\ (tree[i].k = "lit" /\ tree[i].a = "NUMBER")
                       => tru_typ(heap, nodeTyp[i]) = Number
                 /\ (tree[i].k = "lit" /\ tree[i].a = "BOOL")
                       => tru_typ(heap, nodeTyp[i]) = Bool
    /\ (Finished /\ tree = OtherLiteral)
          => /\ err = "NotImplemented"
             /\ ret = None
             /\ heap[nodeTyp[4]].up = None

\* A Bool literal inferred a second time in an environment with frames.
C15_Witness ==
    /\ pc = "done" /\ runs = 2
    /\ tree = Literal("BOOL")
    /\ env # EmptyTypEnvironment
    /\ ret = Bool
    /\ heap[nodeTyp[1]].up = Bool

CalledApply == pc = "returned" /\ op.name = "infer_application_type"

\* The resolved structure of t is finite.
Finite(h, t) == \A i \in 1..Len(resolved(h, t)) : resolved(h, t)[i] # -3

\* C16: infer_application_type has no spurious failure: when the function type
\* resolves to a function type whose parameter resolves to the very type the
\* argument resolves to (a parameter that an earlier application already
\* bound, say to Number, applied to a Number again), the two are unifiable and
\* the call succeeds, returning the result type of the function.
C16_NoSpuriousFailure ==
    LET function_true_typ == tru_typ(pre, op.a)
    IN  (/\ CalledApply
         /\ function_true_typ # None
         /\ Kind(pre, function_true_typ) = "Lam"
         /\ Finite(pre, op.a) /\ Finite(pre, op.b)
         /\ resolved(pre, pre[function_true_typ].var) = resolved(pre, op.b))
            => /\ err = "none"
               /\ resolved(heap, ret) = resolved(pre, pre[function_true_typ].body)

\* The names of the variables in the resolved structure of t.
NamesIn(h, t) == {resolved(h, t)[i] : i \in 1..Len(resolved(h, t))} \ {0, Number, Bool, -3}

\* C17: is_in_typ follows bindings, so that no infinite type is created.
\* After a first pass, for every unbound variable X and every type t whose
\* resolved structure is finite, is_in_typ(X, resolved t) holds exactly when X
\* is in the structure of t once the bindings of t and of its nested
\* components are followed; and after a pass that succeeded every type value
\* whose binding chain ends has a finite resolved structure (no variable is
\* bound to a function type that contains that variable).
C17_OccursCheckFollowsBindings ==
    (Finished /\ runs = 1)
        => /\ \A X \in 1..Len(heap), t \in 1..Len(heap) :
                 (UnboundVariable(heap, X) /\ Finite(heap, t))
                     => (is_in_typ(heap, heap[X].name, tru_typ(heap, t))
                            <=> heap[X].name \in NamesIn(heap, t))
           /\ (pc = "done")
                 => \A t \in 1..Len(heap) : tru_typ(heap, t) # None => Finite(heap, t)

\* C18: termination.  On a tree whose node variables start fresh and unbound
\* infer_type comes to an end, returning a type or failing with one of its
\* failures: no tru_typ, upgrade, union or subsitute call made during the pass
\* recurses without end (which Python ends with RecursionError), and after the
\* pass tru_typ and upgrade still terminate on every type value.
C18_Termination ==
    (Finished /\ runs = 1)
        => /\ err # "RecursionError"
           /\ \A t \in 1..Len(heap) : tru_typ(heap, t) # None

\* C19: every node is bound to the type inferred for it.  On a first pass,
\* when infer_type returns a type T for a node, the node's own variable and T
\* resolve to the same type value: for the root when the pass returns, and for
\* the subexpressions of the root (function and argument of an Application,
\* body of a Lambda) at the time their own inference returns.
C19_NodeBoundToInferredTyp ==
    (Finished /\ runs = 1)
        => /\ (err = "none")
                 => /\ tru_typ(heap, ret) # None
                    /\ tru_typ(heap, nodeTyp[1]) = tru_typ(heap, ret)
           /\ (tree[1].k \in {"app", "lam"} /\ FirstChild.err = "none")
                 => /\ tru_typ(FirstChild.heap, FirstChild.ret) # None
                    /\ tru_typ(FirstChild.heap, nodeTyp[2])
                           = tru_typ(FirstChild.heap, FirstChild.ret)
           /\ (tree[1].k = "app" /\ SecondChild.err = "none")
                 => /\ tru_typ(SecondChild.heap, SecondChild.ret) # None
                    /\ tru_typ(SecondChild.heap, nodeTyp[SubtreeEnd(tree, 2)])
                           = tru_typ(SecondChild.heap, SecondChild.ret)

\* An application of a lambda to a found identifier: all four kinds of node.
C19_Witness ==
    /\ pc = "done" /\ runs = 1
    /\ tree = ArgumentNamedAsParameter
    /\ env # EmptyTypEnvironment
    /\ tru_typ(heap, nodeTyp[1]) = tru_typ(heap, ret)
    /\ tru_typ(FirstChild.heap, nodeTyp[2]) = tru_typ(FirstChild.heap, FirstChild.ret)
    /\ tru_typ(SecondChild.heap, nodeTyp[4]) = tru_typ(SecondChild.heap, SecondChild.ret)

====
